---- MODULE Spec2Model ----
(***************************************************************************)
(* A model of the "shall" shell: reader -> tokenizer -> parser ->          *)
(* interpret -> perform.  The shell process is one sequential program      *)
(* whose position is pc; the children it forks run concurrently.           *)
(*                                                                         *)
(* Bytes are their ASCII codes.  reader_next hands them over as a C        *)
(* 'char', taken here as the signed 8-bit type of the x86 builds.          *)
(* The four builtin names are kept one letter long (c, s, x, e) so that    *)
(* they fit the bounded strings of the model.                              *)
(***************************************************************************)
EXTENDS Integers, Sequences, FiniteSets, TLC

(* ------------------------------------------------------------------ *)
(* Bounds                                                              *)
(* ------------------------------------------------------------------ *)
MaxInput == 4       \* bytes the byte sources deliver, any bytes
MaxLong == 7        \* bytes the byte sources deliver, redirection syntax only
MaxCmds == 6        \* bytes the byte sources deliver, plain commands only
MaxTrace == 3       \* bytes delivered when input and output are recorded
MaxStrLen == 2      \* longest string the tokenizer accumulates
MaxProcs == 3       \* children the system lets the shell fork
MaxDepth == 1       \* nesting of interpret() through 'source'
MaxRedirs == 2      \* redirections of the command a child is drawn with
MaxLive == 4        \* bytes delivered when termination is checked

(* ------------------------------------------------------------------ *)
(* Characters                                                          *)
(* ------------------------------------------------------------------ *)
EOF == 0 - 1
CH_NL == 10
CH_SP == 32
CH_DQ == 34
CH_AMP == 38
CH_SQ == 39
CH_SEMI == 59
CH_LT == 60
CH_GT == 62
CH_BSL == 92
CH_CBO == 123
CH_CBC == 125
CH_2 == 50
CH_c == 99
CH_e == 101
CH_s == 115
CH_x == 120
CH_FF == 255

\* the byte values a byte source delivers in the model
Bytes ==
  {CH_NL, CH_SP, CH_DQ, CH_AMP, CH_SQ, CH_SEMI, CH_LT, CH_GT, CH_BSL,
   CH_CBO, CH_CBC, CH_2, CH_c, CH_e, CH_s, CH_x, CH_FF}

\* the bytes of inputs that consist of redirections of 2 and 22
SyntaxBytes == {CH_NL, CH_LT, CH_GT, CH_CBO, CH_CBC, CH_2}

\* the bytes of inputs that consist of the commands 2 and 22
CommandBytes == {CH_NL, CH_SEMI, CH_AMP, CH_2}

\* 'char c; read(fd, &c, 1); return c;' : the byte as a signed char
ToChar(b) == IF b >= 128 THEN b - 256 ELSE b

Separators == {CH_SP, 9, 13, 0}

NULL == <<>>        \* a char* that is 0; a non-null string is never empty

(* ------------------------------------------------------------------ *)
(* Tokens and elements                                                 *)
(* ------------------------------------------------------------------ *)
Tok(tt) == [type |-> tt, string |-> NULL]
TokString(s) == [type |-> "TOKEN_STRING", string |-> s]
NoToken == Tok("none")

element_create(et) == [type |-> et, name |-> NULL, fd |-> 0, fd2 |-> 0]
NoElt == element_create("none")
AbortElt == element_create("abort")

RedirTypes ==
  {"ELEMENT_REDIR_FILE_IN", "ELEMENT_REDIR_FILE_OUT", "ELEMENT_REDIR_FILE_APPEND",
   "ELEMENT_REDIR_FD_IN", "ELEMENT_REDIR_FD_OUT"}

VARIABLES
  pc,          \* position of the shell process
  budget,      \* bytes the byte sources may still deliver
  charset,     \* the byte values the byte sources deliver
  reader,      \* the current reader: [eof]
  tokenizer,   \* struct tokenizer: [state, buffered, string]
  token,       \* the token tokenizer_next returned to parser_next
  parser,      \* struct parser: [state, tokens]
  elt,         \* the element parser_next returned to interpret
  command,     \* struct command: [argv, redirs]
  stack,       \* suspended interpret() frames (callers of 'source')
  background,  \* the 'background' argument of gotline() and perform()
  srci,        \* the index i of the loop in source()
  pid,         \* what fork() returned to spawn() in the shell
  endpid,      \* what wait() returned to spawn()
  status,      \* exit status of the shell process once it has exited
  fds,         \* descriptor table of the shell process
  cwd,         \* working directory of the shell process
  files,       \* paths that exist in the file system
  procs,       \* the children forked so far, by pid
  didRead,     \* did the last tokenizer_next step call reader_next
  pstep,       \* what the last parser_next step saw and did
  line,        \* what happened since the last newline token
  rec          \* the recorded input, tokens and elements of the top level

vars == <<pc, budget, charset, reader, tokenizer, token, parser, elt, command, stack,
          background, srci, pid, endpid, status, fds, cwd, files, procs,
          didRead, pstep, line, rec>>

(* ------------------------------------------------------------------ *)
(* token.c                                                             *)
(* ------------------------------------------------------------------ *)
tokenizer_create == [state |-> "TOKENIZER_NEUTRAL", buffered |-> 0, string |-> NULL]

\* the result of one pass through the loop of tokenizer_next: the new
\* tokenizer and the token returned (NoToken: the loop goes round again)
Continue(tk) == [tk |-> tk, token |-> NoToken]
Return(tk, t) == [tk |-> tk, token |-> t]
AbortTok(tk) == [tk |-> tk, token |-> Tok("abort")]

tokenizer_append(tk, c) == [tk EXCEPT !.string = Append(@, c)]

\* the terminating 0 that tokenizer_string appends is left implicit
tokenizer_string(tk) ==
  Return([tk EXCEPT !.string = NULL, !.state = "TOKENIZER_NEUTRAL"],
         TokString(tk.string))

\* a tokenizer_buffer that returns the string and forgets the character
tokenizer_buffer_drop(tk, c, tt) ==
  IF tk.string = NULL THEN Return(tk, Tok(tt)) ELSE tokenizer_string(tk)

tokenizer_buffer(tk, c, tt) ==
  IF tk.string = NULL
  THEN Return(tk, Tok(tt))
  ELSE LET r == tokenizer_string(tk)
       IN  Return([r.tk EXCEPT !.state = "TOKENIZER_BUFFERED", !.buffered = c],
                  r.token)

\* a tokenizer_eof that does not record that EOF was reached
tokenizer_eof_forget(tk) ==
  IF tk.string = NULL THEN Return(tk, Tok("TOKEN_EOF")) ELSE tokenizer_string(tk)

tokenizer_eof(tk) ==
  IF tk.state = "TOKENIZER_EOF"
  THEN AbortTok(tk)
  ELSE LET t == [tk EXCEPT !.state = "TOKENIZER_EOF"]
       IN  IF t.string = NULL
           THEN Return(t, Tok("TOKEN_EOF"))
           ELSE tokenizer_string(t)

SpecialType(c) ==
  CASE c = CH_LT -> "TOKEN_LT"
    [] c = CH_GT -> "TOKEN_GT"
    [] c = CH_AMP -> "TOKEN_AMPERSAND"
    [] c = CH_CBO -> "TOKEN_CB_OPEN"
    [] c = CH_CBC -> "TOKEN_CB_CLOSE"
    [] c = CH_SEMI -> "TOKEN_SEMI"
    [] c = CH_NL -> "TOKEN_EOLN"

Specials == {CH_LT, CH_GT, CH_AMP, CH_CBO, CH_CBC, CH_SEMI, CH_NL}

\* 'switch (tokenizer->state)' of tokenizer_next, for the character c
tokenizer_switch(tk, c) ==
  CASE tk.state = "TOKENIZER_EOF" -> AbortTok(tk)
    [] tk.state = "TOKENIZER_NEUTRAL" ->
         IF c = EOF THEN tokenizer_eof(tk)
         ELSE IF c \in Specials THEN tokenizer_buffer(tk, c, SpecialType(c))
         ELSE IF c \in Separators
           THEN (IF tk.string # NULL THEN tokenizer_string(tk) ELSE Continue(tk))
         ELSE IF c = CH_BSL THEN Continue([tk EXCEPT !.state = "TOKENIZER_ESC"])
         ELSE IF c = CH_SQ THEN Continue([tk EXCEPT !.state = "TOKENIZER_SQ_STRING"])
         ELSE IF c = CH_DQ THEN Continue([tk EXCEPT !.state = "TOKENIZER_DQ_STRING"])
         ELSE Continue(tokenizer_append(tk, c))
    [] tk.state = "TOKENIZER_ESC" ->
         IF c = EOF THEN tokenizer_eof(tk)
         ELSE Continue(tokenizer_append([tk EXCEPT !.state = "TOKENIZER_NEUTRAL"], c))
    [] tk.state = "TOKENIZER_SQ_STRING" ->
         IF c = EOF THEN tokenizer_eof(tk)
         ELSE IF c = CH_SQ THEN Continue([tk EXCEPT !.state = "TOKENIZER_NEUTRAL"])
         ELSE Continue(tokenizer_append(tk, c))
    [] tk.state = "TOKENIZER_DQ_STRING" ->
         IF c = EOF THEN tokenizer_eof(tk)
         ELSE IF c = CH_DQ THEN Continue([tk EXCEPT !.state = "TOKENIZER_NEUTRAL"])
         ELSE Continue(tokenizer_append(tk, c))
    [] OTHER -> AbortTok(tk)

(* ------------------------------------------------------------------ *)
(* parser.c                                                            *)
(* ------------------------------------------------------------------ *)
MAX_TOKENS == 7

IsSpace(c) == c = CH_SP \/ (c >= 9 /\ c <= 13)
IsDigit(c) == c >= 48 /\ c <= 57

RECURSIVE SkipSpace(_)
SkipSpace(s) == IF s # <<>> /\ IsSpace(Head(s)) THEN SkipSpace(Tail(s)) ELSE s

RECURSIVE Digits(_, _)
Digits(s, acc) ==
  IF s # <<>> /\ IsDigit(Head(s))
  THEN Digits(Tail(s), 10 * acc + (Head(s) - 48))
  ELSE acc

\* atoi(3): blanks, an optional sign, then the decimal digits
atoi(s) ==
  LET t == SkipSpace(s)
  IN  IF t # <<>> /\ Head(t) = 45 THEN 0 - Digits(Tail(t), 0)
      ELSE IF t # <<>> /\ Head(t) = 43 THEN Digits(Tail(t), 0)
      ELSE Digits(t, 0)

parser_create == [state |-> "PARSER_NEUTRAL", tokens |-> <<>>]

\* a parser_truncate that leaves the window as it is
parser_truncate_keep(p) == p

parser_truncate(p) == [p EXCEPT !.tokens = <<>>]

ErrorElt == element_create("ELEMENT_ERROR")

\* a matcher that never resolves a redirection
match_redir_never(tk, n, offset, fd) == NoElt

\* the part of parser_match after 'offset' and 'fd' are known; tokens[i]
\* of the code is tk[i + 1] here, and n is parser->ntokens
match_redir(tk, n, offset, fd) ==
  IF ~(offset < n) THEN AbortElt
  ELSE IF offset = n - 1 THEN NoElt
  ELSE IF tk[offset + 2].type = "TOKEN_GT"
  THEN IF tk[offset + 1].type # "TOKEN_GT" THEN ErrorElt
       ELSE IF offset = n - 2 THEN NoElt
       ELSE IF tk[offset + 3].type # "TOKEN_STRING" THEN ErrorElt
       ELSE [element_create("ELEMENT_REDIR_FILE_APPEND")
               EXCEPT !.fd = fd, !.name = tk[offset + 3].string]
  ELSE CASE tk[offset + 2].type = "TOKEN_STRING" ->
              IF offset # n - 2 THEN AbortElt
              ELSE [element_create(IF tk[offset + 1].type = "TOKEN_LT"
                                   THEN "ELEMENT_REDIR_FILE_IN"
                                   ELSE "ELEMENT_REDIR_FILE_OUT")
                      EXCEPT !.fd = fd, !.name = tk[offset + 2].string]
         [] tk[offset + 2].type = "TOKEN_CB_OPEN" ->
              IF n < offset + 3 THEN NoElt
              ELSE IF tk[offset + 3].type # "TOKEN_STRING" THEN ErrorElt
              ELSE IF n < offset + 4 THEN NoElt
              ELSE IF tk[offset + 4].type # "TOKEN_CB_CLOSE" THEN ErrorElt
              ELSE [element_create(IF tk[offset + 1].type = "TOKEN_LT"
                                   THEN "ELEMENT_REDIR_FD_IN"
                                   ELSE "ELEMENT_REDIR_FD_OUT")
                      EXCEPT !.fd = fd, !.fd2 = atoi(tk[offset + 3].string)]
         [] OTHER -> ErrorElt

\* a mistaken default: descriptor 0 for '>' as well
DefaultFd_zero(tt) == 0

\* 'fd = 0' for a leading '<', 'fd = 1' for a leading '>'
DefaultFd(tt) == IF tt = "TOKEN_LT" THEN 0 ELSE 1

\* parser_match: the element the window is, NoElt when it is not complete
\* yet (the code's 0), AbortElt when an assertion fails
parser_match(p) ==
  LET tk == p.tokens
      n == Len(p.tokens)
  IN  IF ~(n > 0) THEN AbortElt
      ELSE CASE tk[1].type = "TOKEN_STRING" ->
                  IF n # 1 THEN AbortElt
                  ELSE [element_create("ELEMENT_ARG") EXCEPT !.name = tk[1].string]
             [] tk[1].type \in {"TOKEN_LT", "TOKEN_GT"} ->
                  match_redir(tk, n, 0, DefaultFd(tk[1].type))
             [] tk[1].type = "TOKEN_CB_OPEN" ->
                  IF n < 2 THEN NoElt
                  ELSE IF tk[2].type # "TOKEN_STRING" THEN ErrorElt
                  ELSE IF n < 3 THEN NoElt
                  ELSE IF tk[3].type # "TOKEN_CB_CLOSE" THEN ErrorElt
                  ELSE IF n < 4 THEN NoElt
                  ELSE IF tk[4].type \in {"TOKEN_LT", "TOKEN_GT"}
                       THEN match_redir(tk, n, 3, atoi(tk[2].string))
                       ELSE ErrorElt
             [] OTHER -> ErrorElt

\* one pass through the loop of parser_next with the token t: the new
\* parser and the element returned (NoElt: the loop goes round again)
PRet(p, e) == [parser |-> p, elt |-> e]

parser_append(p, t) ==
  LET q == [p EXCEPT !.tokens = Append(@, t)]
      e == parser_match(q)
  IN  IF Len(p.tokens) >= MAX_TOKENS THEN PRet(p, AbortElt)
      ELSE IF e # NoElt THEN PRet(parser_truncate(q), e)
      ELSE IF Len(q.tokens) = MAX_TOKENS
           THEN PRet([parser_truncate(q) EXCEPT !.state = "PARSER_ERROR"], ErrorElt)
           ELSE PRet(q, NoElt)

parser_terminator(p, et) ==
  IF Len(p.tokens) = 0
  THEN PRet(p, element_create(et))
  ELSE PRet(parser_truncate(p), ErrorElt)

parser_eoln(p) ==
  IF Len(p.tokens) = 0
  THEN PRet(p, element_create("ELEMENT_EOLN"))
  ELSE PRet(p, NoElt)

parser_switch(p, t) ==
  CASE p.state = "PARSER_NEUTRAL" ->
         CASE t.type = "TOKEN_EOF" ->
                IF Len(p.tokens) > 0
                THEN PRet(parser_truncate(p), ErrorElt)
                ELSE PRet(p, element_create("ELEMENT_EOF"))
           [] t.type = "TOKEN_EOLN" -> parser_eoln(p)
           [] t.type = "TOKEN_SEMI" -> parser_terminator(p, "ELEMENT_SEMI")
           [] t.type = "TOKEN_AMPERSAND" -> parser_terminator(p, "ELEMENT_BACKGROUND")
           [] OTHER -> parser_append(p, t)
    [] p.state = "PARSER_ERROR" ->
         IF t.type = "TOKEN_EOLN"
         THEN PRet([parser_truncate(p) EXCEPT !.state = "PARSER_NEUTRAL"], NoElt)
         ELSE PRet(p, NoElt)
    [] p.state = "PARSER_EOF" ->
         IF Len(p.tokens) # 0 THEN PRet(p, AbortElt)
         ELSE PRet(p, element_create("ELEMENT_EOF"))
    [] OTHER -> PRet(p, AbortElt)

(* ------------------------------------------------------------------ *)
(* exec.c: descriptors and redirections                                *)
(* ------------------------------------------------------------------ *)
O_RDONLY == {"O_RDONLY"}
O_OUT == {"O_WRONLY", "O_CREAT", "O_TRUNC"}
O_APP == {"O_WRONLY", "O_APPEND"}

\* an open file description; the terminal has no path
Desc(path, flags) == [path |-> path, flags |-> flags]
Tty == Desc(NULL, {"O_RDWR"})

\* the process state a redirection works on: ok is FALSE once _exit(1)
\* has been called
RState(ok, f, fs) == [ok |-> ok, fds |-> f, files |-> fs]

Min(S) == CHOOSE x \in S : \A y \in S : x <= y
LowestFree(f) == Min((0 .. (Cardinality(DOMAIN f))) \ DOMAIN f)

Without(f, fd) == [x \in (DOMAIN f) \ {fd} |-> f[x]]
With(f, fd, d) == [x \in (DOMAIN f) \cup {fd} |-> IF x = fd THEN d ELSE f[x]]

\* a redir_fd that goes on when dup2() fails
redir_fd_goes_on(st, fd1, fd2) ==
  IF fd2 \in DOMAIN st.fds /\ fd1 >= 0
  THEN [st EXCEPT !.fds = With(st.fds, fd1, st.fds[fd2])]
  ELSE st

\* redir_fd: dup2(fd2, fd1), _exit(1) when it fails
redir_fd(st, fd1, fd2) ==
  IF fd2 \in DOMAIN st.fds /\ fd1 >= 0
  THEN [st EXCEPT !.fds = With(st.fds, fd1, st.fds[fd2])]
  ELSE [st EXCEPT !.ok = FALSE]

\* open(name, flags, 0644): the new descriptor (-1: failure) and the files
sys_open(st, name, flags) ==
  IF name \in st.files \/ "O_CREAT" \in flags
  THEN [fd |-> LowestFree(st.fds),
        st |-> [st EXCEPT !.fds = With(st.fds, LowestFree(st.fds), Desc(name, flags)),
                          !.files = @ \cup {name}]]
  ELSE [fd |-> 0 - 1, st |-> st]

sys_close(st, fd) == [st EXCEPT !.fds = Without(st.fds, fd)]

redir_file(st, name, fd, flags) ==
  LET o == sys_open(st, name, flags)
      d == redir_fd(o.st, fd, o.fd)
  IN  IF d.ok THEN sys_close(d, o.fd) ELSE d

redir_one(st, e) ==
  CASE e.type = "ELEMENT_REDIR_FILE_IN" -> redir_file(st, e.name, e.fd, O_RDONLY)
    [] e.type = "ELEMENT_REDIR_FILE_OUT" -> redir_file(st, e.name, e.fd, O_OUT)
    [] e.type = "ELEMENT_REDIR_FILE_APPEND" -> redir_file(st, e.name, e.fd, O_APP)
    [] e.type \in {"ELEMENT_REDIR_FD_IN", "ELEMENT_REDIR_FD_OUT"} ->
         redir_fd(st, e.fd, e.fd2)

\* redir: the redirections in the order given, stopping at the first _exit
RECURSIVE redir(_, _)
redir(redirs, st) ==
  IF redirs = <<>> \/ ~st.ok THEN st
  ELSE redir(Tail(redirs), redir_one(st, Head(redirs)))

\* do_exec: execv() replaces the image, or the process exits with 1
do_exec(found) == IF found THEN "image" ELSE "exit"

(* ------------------------------------------------------------------ *)
(* Initial state: main() has called interpret(), which stands before    *)
(* its first parser_next()                                             *)
(* ------------------------------------------------------------------ *)
BUILTIN_CD == <<CH_c>>
BUILTIN_SOURCE == <<CH_s>>
BUILTIN_EXIT == <<CH_x>>
BUILTIN_EXEC == <<CH_e>>

InitFiles == {<<CH_2>>}

NoCommand == [argv |-> <<>>, redirs |-> <<>>]
NoStep == [tok |-> "none", n |-> 0, win |-> <<>>, ret |-> "none"]
NewLine == [err |-> FALSE, n |-> 0, after |-> FALSE]
reader_create(fd) == [fd |-> fd, eof |-> FALSE]

\* nothing recorded yet; eos is the number of elements that had been handed
\* on when the byte source first reported its end, -1 before that
NoRecord(on) == [on |-> on, input |-> <<>>, toks |-> <<>>, elts |-> <<>>, eos |-> 0 - 1]

InitCommon ==
  /\ pc = "tok"
  /\ reader = reader_create(0)
  /\ tokenizer = tokenizer_create
  /\ token = NoToken
  /\ parser = parser_create
  /\ elt = NoElt
  /\ command = NoCommand
  /\ stack = <<>>
  /\ background = FALSE
  /\ srci = 0
  /\ pid = 0
  /\ endpid = 0
  /\ status = 0
  /\ fds = [x \in {0, 1, 2} |-> Tty]
  /\ cwd = [kind |-> "start", path |-> NULL]
  /\ files \in SUBSET InitFiles
  /\ procs = <<>>
  /\ didRead = FALSE
  /\ pstep = NoStep
  /\ line = NewLine

Init ==
  /\ InitCommon
  /\ \/ charset = Bytes /\ budget = MaxInput
     \/ charset = SyntaxBytes /\ budget = MaxLong
     \/ charset = CommandBytes /\ budget = MaxCmds
  /\ rec = NoRecord(FALSE)

InitTrace ==
  /\ InitCommon
  /\ charset = Bytes
  /\ budget = MaxTrace
  /\ rec = NoRecord(TRUE)

Recording == rec.on /\ stack = <<>>

(* ------------------------------------------------------------------ *)
(* tokenizer_next, one pass through its loop at a time                 *)
(* ------------------------------------------------------------------ *)
shellRest == <<charset, background, srci, pid, endpid, status, fds, cwd, files, procs>>
frameRest == <<parser, elt, command, stack, pstep, line>>

\* what a pass that ends in the result r does to the tokenizer; input is
\* what reader_next delivered to it, eos whether that was its end
TokenizerPass(r, input, eos) ==
  /\ Len(r.tk.string) <= MaxStrLen
  /\ tokenizer' = r.tk
  /\ token' = IF r.token.type = "abort" THEN NoToken ELSE r.token
  /\ pc' = CASE r.token = NoToken -> "tok"
             [] r.token.type = "abort" -> "assert_tokenizer"
             [] OTHER -> "parse"
  /\ rec' = IF Recording
            THEN [rec EXCEPT !.input = @ \o input,
                             !.toks = IF r.token = NoToken \/ r.token.type = "abort"
                                      THEN @ ELSE Append(@, r.token),
                             !.eos = IF eos /\ @ < 0 THEN Len(rec.elts) ELSE @]
            ELSE rec
  /\ UNCHANGED <<shellRest, frameRest>>

\* token.c 129-133
TokenizerAtEOF ==
  /\ pc = "tok"
  /\ tokenizer.state = "TOKENIZER_EOF"
  /\ TokenizerPass(Return(tokenizer, Tok("TOKEN_EOF")), <<>>, FALSE)
  /\ didRead' = FALSE
  /\ UNCHANGED <<budget, reader>>

\* token.c 138-141, then the switch
TokenizerReplay ==
  /\ pc = "tok"
  /\ tokenizer.state = "TOKENIZER_BUFFERED"
  /\ TokenizerPass(tokenizer_switch([tokenizer EXCEPT !.state = "TOKENIZER_NEUTRAL"],
                                    tokenizer.buffered), <<>>, FALSE)
  /\ didRead' = FALSE
  /\ UNCHANGED <<budget, reader>>

\* token.c 143 with reader_next delivering a byte, then the switch
TokenizerReadByte ==
  /\ pc = "tok"
  /\ tokenizer.state \notin {"TOKENIZER_EOF", "TOKENIZER_BUFFERED"}
  /\ ~reader.eof /\ reader.fd >= 0 /\ budget > 0
  /\ \E b \in charset :
       TokenizerPass(tokenizer_switch(tokenizer, ToChar(b)), <<b>>, FALSE)
  /\ budget' = budget - 1
  /\ didRead' = TRUE
  /\ UNCHANGED reader

\* token.c 143 with reader_next at the end of its stream, then the switch
TokenizerReadEOF ==
  /\ pc = "tok"
  /\ tokenizer.state \notin {"TOKENIZER_EOF", "TOKENIZER_BUFFERED"}
  /\ TokenizerPass(tokenizer_switch(tokenizer, EOF), <<>>, TRUE)
  /\ reader' = [reader EXCEPT !.eof = TRUE]
  /\ didRead' = TRUE
  /\ UNCHANGED budget

(* ------------------------------------------------------------------ *)
(* parser_next, one pass through its loop at a time                    *)
(* ------------------------------------------------------------------ *)
WindowTokens == {"TOKEN_STRING", "TOKEN_GT", "TOKEN_LT", "TOKEN_CB_OPEN", "TOKEN_CB_CLOSE"}

\* the record of the line after a pass that took a token of type tt and
\* returned e: a newline token that is not handed on as ELEMENT_EOLN starts
\* the next line here, one that is handed on does so in gotline()
LineAfter(l, tt, e) ==
  IF tt = "TOKEN_EOLN" /\ e.type # "ELEMENT_EOLN" THEN NewLine
  ELSE IF e.type \in {"none", "abort", "ELEMENT_EOF", "ELEMENT_EOLN"} THEN l
  ELSE [l EXCEPT !.after = l.after \/ l.err, !.err = l.err \/ e.type = "ELEMENT_ERROR"]

ParserNext ==
  /\ pc = "parse"
  /\ LET r == parser_switch(parser, token)
     IN  /\ parser' = r.parser
         /\ elt' = IF r.elt = AbortElt THEN NoElt ELSE r.elt
         /\ pc' = CASE r.elt = NoElt -> "tok"
                    [] r.elt = AbortElt -> "assert_parser"
                    [] OTHER -> "interp"
         /\ pstep' = [tok |-> token.type,
                      n |-> Len(parser.tokens),
                      win |-> IF parser.state = "PARSER_NEUTRAL"
                                 /\ token.type \in WindowTokens
                              THEN Append(parser.tokens, token) ELSE <<>>,
                      ret |-> r.elt.type]
         /\ line' = LineAfter(line, token.type, r.elt)
         /\ rec' = IF Recording /\ r.elt # NoElt /\ r.elt # AbortElt
                   THEN [rec EXCEPT !.elts = Append(@, r.elt)] ELSE rec
  /\ token' = NoToken
  /\ UNCHANGED <<budget, reader, tokenizer, command, stack, didRead, shellRest>>

(* ------------------------------------------------------------------ *)
(* shall.c: interpret() and gotline()                                  *)
(* ------------------------------------------------------------------ *)
Terminators == {"ELEMENT_EOLN", "ELEMENT_SEMI", "ELEMENT_BACKGROUND", "ELEMENT_EOF"}

\* an arg_append that puts the argument in front
arg_append_front(c, arg) == [c EXCEPT !.argv = <<arg>> \o @]

arg_append(c, arg) == [c EXCEPT !.argv = Append(@, arg)]
redir_append(c, e) == [c EXCEPT !.redirs = Append(@, e)]

\* the frame of an interpret() that is suspended in source()
Frame ==
  [reader |-> reader, tokenizer |-> tokenizer, parser |-> parser,
   command |-> command, elt |-> elt, background |-> background,
   srci |-> srci, line |-> line]

\* shall.c 73-77
InterpretArg ==
  /\ pc = "interp"
  /\ elt.type = "ELEMENT_ARG"
  /\ command' = arg_append(command, elt.name)
  /\ line' = [line EXCEPT !.n = @ + 1]
  /\ elt' = NoElt
  /\ pstep' = NoStep
  /\ pc' = "tok"
  /\ UNCHANGED <<budget, reader, tokenizer, token, parser, stack, didRead, rec, shellRest>>

\* shall.c 78-84
InterpretRedir ==
  /\ pc = "interp"
  /\ elt.type \in RedirTypes
  /\ command' = redir_append(command, elt)
  /\ line' = [line EXCEPT !.n = @ + 1]
  /\ elt' = NoElt
  /\ pstep' = NoStep
  /\ pc' = "tok"
  /\ UNCHANGED <<budget, reader, tokenizer, token, parser, stack, didRead, rec, shellRest>>

\* shall.c 100-105
InterpretError ==
  /\ pc = "interp"
  /\ elt.type = "ELEMENT_ERROR"
  /\ elt' = NoElt
  /\ pstep' = NoStep
  /\ pc' = "tok"
  /\ UNCHANGED <<budget, reader, tokenizer, token, parser, command, stack, line,
                 didRead, rec, shellRest>>

\* a gotline() that clears the arguments only
gotline_reset_args(c) == [c EXCEPT !.argv = <<>>]

\* a gotline() that clears nothing
gotline_reset_none(c) == c

\* gotline(): command->argc = 0 and command->nredirs = 0 (shall.c 45-53)
gotline_reset(c) == [c EXCEPT !.argv = <<>>, !.redirs = <<>>]

\* gotline() after perform(): shall.c 45-53, then the rest of the loop of
\* interpret(); at ELEMENT_EOF interpret() returns, to main() or to source()
GotlineEnd(bg) ==
  IF elt.type # "ELEMENT_EOF"
  THEN /\ command' = gotline_reset(command)
       /\ line' = IF elt.type = "ELEMENT_EOLN" THEN NewLine ELSE [line EXCEPT !.n = 0]
       /\ elt' = NoElt
       /\ background' = bg
       /\ pc' = "tok"
       /\ UNCHANGED <<reader, tokenizer, parser, stack, srci, fds>>
  ELSE IF stack = <<>>
  THEN /\ command' = gotline_reset(command)
       /\ line' = [line EXCEPT !.n = 0]
       /\ elt' = NoElt
       /\ background' = bg
       /\ pc' = "done"
       /\ UNCHANGED <<reader, tokenizer, parser, stack, srci, fds>>
  ELSE LET f == Head(stack)
       IN  /\ reader' = f.reader
           /\ tokenizer' = f.tokenizer
           /\ parser' = f.parser
           /\ command' = f.command
           /\ elt' = f.elt
           /\ background' = f.background
           /\ line' = f.line
           /\ srci' = f.srci + 1
           /\ fds' = IF reader.fd >= 0 THEN Without(fds, reader.fd) ELSE fds
           /\ stack' = Tail(stack)
           /\ pc' = "source"

IsGotline == pc = "interp" /\ elt.type \in Terminators
IsPerform == IsGotline /\ Len(command.argv) > 0
Bg == elt.type = "ELEMENT_BACKGROUND"

\* shall.c 85-99, 106-113 with a command of no arguments
GotlineEmpty ==
  /\ IsGotline
  /\ Len(command.argv) = 0
  /\ GotlineEnd(Bg)
  /\ pstep' = NoStep
  /\ UNCHANGED <<budget, charset, token, didRead, rec, pid, endpid, status, cwd,
                 files, procs>>

\* perform() has returned to gotline()
GotlineReturn ==
  /\ pc = "ret"
  /\ GotlineEnd(background)
  /\ UNCHANGED <<budget, charset, token, didRead, rec, pstep, pid, endpid, status,
                 cwd, files, procs>>

(* ------------------------------------------------------------------ *)
(* exec.c: perform() and the builtins                                  *)
(* ------------------------------------------------------------------ *)
\* command->argc at perform(): the arguments and the terminating 0
Argc == Len(command.argv) + 1

builtin_check(c, bg) == ~bg /\ Len(c.redirs) = 0

performRest == <<budget, charset, reader, tokenizer, token, parser, elt, command, stack,
                 line, didRead, rec>>

\* exec.c 271-275 and cd()
PerformCd ==
  /\ IsPerform
  /\ command.argv[1] = BUILTIN_CD
  /\ IF builtin_check(command, Bg) /\ ~(Argc > 3)
     THEN \E ok \in BOOLEAN :
            cwd' = IF ~ok THEN cwd
                   ELSE IF Len(command.argv) >= 2
                        THEN [kind |-> "path", path |-> command.argv[2]]
                        ELSE [kind |-> "home", path |-> NULL]
     ELSE cwd' = cwd
  /\ background' = Bg
  /\ pstep' = NoStep
  /\ pc' = "ret"
  /\ UNCHANGED <<performRest, srci, pid, endpid, status, fds, files, procs>>

\* exec.c 276-280
PerformSource ==
  /\ IsPerform
  /\ command.argv[1] = BUILTIN_SOURCE
  /\ background' = Bg
  /\ pstep' = NoStep
  /\ IF builtin_check(command, Bg)
     THEN pc' = "source" /\ srci' = 1
     ELSE pc' = "ret" /\ srci' = srci
  /\ UNCHANGED <<performRest, pid, endpid, status, fds, cwd, files, procs>>

\* source(): the loop has reached the 0 that ends argv
SourceEnd ==
  /\ pc = "source"
  /\ srci + 1 > Len(command.argv)
  /\ pc' = "ret"
  /\ UNCHANGED <<performRest, pstep, background, srci, pid, endpid, status, fds,
                 cwd, files, procs>>

\* source(): open argv[i] and call interpret() on it
SourceOpen ==
  /\ pc = "source"
  /\ srci + 1 <= Len(command.argv)
  /\ Len(stack) < MaxDepth
  /\ LET o == sys_open(RState(TRUE, fds, files), command.argv[srci + 1], O_RDONLY)
     IN  /\ fds' = o.st.fds
         /\ reader' = reader_create(o.fd)
  /\ stack' = <<Frame>> \o stack
  /\ tokenizer' = tokenizer_create
  /\ parser' = parser_create
  /\ command' = NoCommand
  /\ elt' = NoElt
  /\ line' = NewLine
  /\ pc' = "tok"
  /\ UNCHANGED <<budget, charset, token, didRead, rec, pstep, background, srci, pid,
                 endpid, status, cwd, files, procs>>

\* exec.c 281-285 and do_exit()
PerformExit ==
  /\ IsPerform
  /\ command.argv[1] = BUILTIN_EXIT
  /\ background' = Bg
  /\ pstep' = NoStep
  /\ IF builtin_check(command, Bg) /\ ~(Argc > 3)
     THEN /\ pc' = "exited"
          /\ status' = IF Len(command.argv) >= 2 THEN atoi(command.argv[2]) % 256 ELSE 0
     ELSE pc' = "ret" /\ status' = status
  /\ UNCHANGED <<performRest, srci, pid, endpid, fds, cwd, files, procs>>

\* exec(): the redirections are applied to the shell itself, then do_exec
exec(c, st0, found) ==
  LET st == redir(c.redirs, st0)
  IN  [st |-> st,
       to |-> IF ~st.ok THEN "exit"
              ELSE IF Len(c.argv) + 1 > 2 THEN do_exec(found)
              ELSE "return"]

\* exec.c 286-293
PerformExec ==
  /\ IsPerform
  /\ command.argv[1] = BUILTIN_EXEC
  /\ background' = Bg
  /\ pstep' = NoStep
  /\ IF Bg
     THEN pc' = "ret" /\ UNCHANGED <<status, fds, files>>
     ELSE \E found \in BOOLEAN :
            LET r == exec(command, RState(TRUE, fds, files), found)
            IN  /\ fds' = r.st.fds
                /\ files' = r.st.files
                /\ pc' = CASE r.to = "exit" -> "exited"
                           [] r.to = "image" -> "replaced"
                           [] OTHER -> "ret"
                /\ status' = IF r.to = "exit" THEN 1 ELSE status
  /\ UNCHANGED <<performRest, srci, pid, endpid, cwd, procs>>

(* ------------------------------------------------------------------ *)
(* exec.c: spawn() and the children                                    *)
(* ------------------------------------------------------------------ *)
Builtins == {BUILTIN_CD, BUILTIN_SOURCE, BUILTIN_EXIT, BUILTIN_EXEC}

\* the child right after fork(): a copy of the shell, still running spawn()
Child(c, bg, f) ==
  [state |-> "forked", background |-> bg, argv |-> c.argv, redirs |-> c.redirs,
   fds |-> f, status |-> 0]

\* a parent that waits for background children too
spawn_parent_wait(bg) == "wait"

\* where the parent goes after fork() returned the pid p (exec.c 180-191)
spawn_parent(bg) == IF ~bg THEN "wait" ELSE "ret"

\* exec.c 294-296 and spawn() in the parent, up to wait()
PerformSpawn ==
  /\ IsPerform
  /\ command.argv[1] \notin Builtins
  /\ background' = Bg
  /\ pstep' = NoStep
  /\ \/ /\ Len(procs) < MaxProcs
        /\ procs' = Append(procs, Child(command, Bg, fds))
        /\ pid' = Len(procs) + 1
        /\ pc' = spawn_parent(Bg)
     \/ /\ procs' = procs
        /\ pid' = 0 - 1
        /\ pc' = "ret"
  /\ UNCHANGED <<performRest, srci, endpid, status, fds, cwd, files>>

Zombies == {p \in 1 .. Len(procs) : procs[p].state = "zombie"}

\* a wait() that reports the background children only
sys_wait_background(p) == {q \in Zombies : procs[q].background}

\* which of the terminated children wait() may return (exec.c 183)
sys_wait(p) == Zombies

\* spawn() in the parent: wait() returns a terminated child
SpawnWait ==
  /\ pc = "wait"
  /\ \E p \in sys_wait(pid) :
       /\ procs' = [procs EXCEPT ![p].state = "reaped"]
       /\ endpid' = p
  /\ pc' = "ret"
  /\ UNCHANGED <<performRest, pstep, background, srci, pid, status, fds, cwd, files>>

frameAll == <<pc, budget, charset, reader, tokenizer, token, parser, elt, command, stack,
              background, srci, pid, endpid, status, fds, cwd, didRead, pstep,
              line, rec>>

\* spawn() in the child: redir(), then execute() (exec.c 172-179)
ChildRun(p) ==
  /\ procs[p].state = "forked"
  /\ \E found \in BOOLEAN :
       LET st == redir(procs[p].redirs, RState(TRUE, procs[p].fds, files))
           to == IF st.ok THEN do_exec(found) ELSE "exit"
       IN  /\ files' = st.files
           /\ procs' = [procs EXCEPT ![p].state = IF to = "image" THEN "running" ELSE "zombie",
                                      ![p].status = IF to = "image" THEN 0 ELSE 1,
                                      ![p].fds = st.fds]
  /\ UNCHANGED frameAll

\* the program the child became terminates
ChildExit(p) ==
  /\ procs[p].state = "running"
  /\ \E s \in {0, 1} :
       procs' = [procs EXCEPT ![p].state = "zombie", ![p].status = s]
  /\ UNCHANGED <<frameAll, files>>

Next ==
  \/ TokenizerAtEOF
  \/ TokenizerReplay
  \/ TokenizerReadByte
  \/ TokenizerReadEOF
  \/ ParserNext
  \/ InterpretArg
  \/ InterpretRedir
  \/ InterpretError
  \/ GotlineEmpty
  \/ GotlineReturn
  \/ PerformCd
  \/ PerformSource
  \/ SourceEnd
  \/ SourceOpen
  \/ PerformExit
  \/ PerformExec
  \/ PerformSpawn
  \/ SpawnWait
  \/ \E p \in 1 .. Len(procs) : ChildRun(p)
  \/ \E p \in 1 .. Len(procs) : ChildExit(p)

Spec == Init /\ [][Next]_vars

SpecTrace == InitTrace /\ [][Next]_vars

(* ------------------------------------------------------------------ *)
(* redir() on its own: the shell has forked a foreground child for a    *)
(* command '2' with drawn redirections and is in wait() for it          *)
(* ------------------------------------------------------------------ *)
\* the descriptors a '{fd}' of the drawn redirections names
RedirFds == 0 .. 3

RedirNames == {<<CH_2>>, <<CH_2, CH_2>>}

\* the redirection elements parser_match builds from such input
RedirElements ==
  {[element_create(t) EXCEPT !.fd = f, !.name = n] :
     t \in {"ELEMENT_REDIR_FILE_IN", "ELEMENT_REDIR_FILE_OUT",
            "ELEMENT_REDIR_FILE_APPEND"}, f \in RedirFds, n \in RedirNames}
  \cup
  {[element_create(t) EXCEPT !.fd = f, !.fd2 = g] :
     t \in {"ELEMENT_REDIR_FD_IN", "ELEMENT_REDIR_FD_OUT"},
     f \in RedirFds, g \in RedirFds}

RedirSeqs == UNION {[1 .. n -> RedirElements] : n \in 1 .. MaxRedirs}

InitRedir ==
  /\ \E rs \in RedirSeqs : command = [argv |-> <<<<CH_2>>>>, redirs |-> rs]
  /\ pc = "wait"
  /\ pid = 1
  /\ fds = [x \in {0, 1, 2} |-> Tty]
  /\ procs = <<Child(command, FALSE, fds)>>
  /\ elt = element_create("ELEMENT_EOLN")
  /\ reader = reader_create(0)
  /\ tokenizer = tokenizer_create
  /\ token = NoToken
  /\ parser = parser_create
  /\ stack = <<>>
  /\ background = FALSE
  /\ srci = 0
  /\ endpid = 0
  /\ status = 0
  /\ cwd = [kind |-> "start", path |-> NULL]
  /\ files \in SUBSET InitFiles
  /\ didRead = FALSE
  /\ pstep = NoStep
  /\ line = [NewLine EXCEPT !.n = Len(command.redirs) + 1]
  /\ charset = CommandBytes
  /\ budget = 0
  /\ rec = NoRecord(FALSE)

NextRedir ==
  \/ \E p \in 1 .. Len(procs) : ChildRun(p)
  \/ \E p \in 1 .. Len(procs) : ChildExit(p)
  \/ SpawnWait

SpecRedir == InitRedir /\ [][NextRedir]_vars

(* ------------------------------------------------------------------ *)
(* The shell on a finite input without 'exit', 'exec' and 'source',     *)
(* scheduled fairly, with foreground children that terminate            *)
(* ------------------------------------------------------------------ *)
\* the bytes of such inputs: the commands 2 and c (cd), '<', '&', newline
LiveBytes == {CH_NL, CH_AMP, CH_LT, CH_2, CH_c}

InitLive ==
  /\ InitCommon
  /\ charset = LiveBytes
  /\ budget = MaxLive
  /\ rec = NoRecord(TRUE)

\* a step of the shell process
ShellStep ==
  \/ TokenizerAtEOF
  \/ TokenizerReplay
  \/ TokenizerReadByte
  \/ TokenizerReadEOF
  \/ ParserNext
  \/ InterpretArg
  \/ InterpretRedir
  \/ InterpretError
  \/ GotlineEmpty
  \/ GotlineReturn
  \/ PerformCd
  \/ PerformSpawn
  \/ SpawnWait

\* a step of the child p, forked for a foreground command
ForegroundStep(p) ==
  /\ p <= Len(procs)
  /\ ~procs[p].background
  /\ (ChildRun(p) \/ ChildExit(p))

NextLive ==
  \/ ShellStep
  \/ \E p \in 1 .. Len(procs) : ChildRun(p)
  \/ \E p \in 1 .. Len(procs) : ChildExit(p)

\* the shell process is scheduled, and every foreground child terminates
Fairness ==
  /\ WF_vars(ShellStep)
  /\ \A p \in 1 .. MaxProcs : WF_vars(ForegroundStep(p))

SpecLive == InitLive /\ [][NextLive]_vars /\ Fairness

(* ------------------------------------------------------------------ *)
(* Properties                                                          *)
(* ------------------------------------------------------------------ *)
\* perform() has been called for the command and gotline() has not yet
\* cleared it
Performing == pc \in {"ret", "wait", "source", "exited", "replaced"}

\* C1: a line on which the parser emitted an Error is discarded: no command
\* holding arguments or redirections of that line is passed to perform()
C1_ErrorLineDiscarded == Performing => ~(line.err /\ line.n > 0)

\* C2: after an Error the parser hands on no element until the next
\* newline (the tokens up to it are discarded), so a line yields one Error
C2_ErrorRecovery == ~line.after

TerminatorElement(tt) ==
  CASE tt = "TOKEN_SEMI" -> "ELEMENT_SEMI"
    [] tt = "TOKEN_AMPERSAND" -> "ELEMENT_BACKGROUND"
    [] tt = "TOKEN_EOLN" -> "ELEMENT_EOLN"

\* C3: a semicolon, ampersand or newline token yields its terminator
\* element when the window is empty, and an Error that empties the window
\* when it is not
C3_TerminatorMidElement ==
  pstep.tok \in {"TOKEN_SEMI", "TOKEN_AMPERSAND", "TOKEN_EOLN"} =>
    IF pstep.n = 0
    THEN pstep.ret = TerminatorElement(pstep.tok)
    ELSE pstep.ret = "ELEMENT_ERROR" /\ parser.tokens = <<>>

(* The grammar of parser.c 14-30, written down on its own:                *)
(*   element : string | fd? LT [fd | string] | fd? GT [fd | string]       *)
(*           | fd? GT GT string         fd : '{' string '}'               *)
Types(w) == [i \in 1 .. Len(w) |-> w[i].type]

AllDigits(str) == str # <<>> /\ \A i \in 1 .. Len(str) : IsDigit(str[i])

RECURSIVE Decimal(_)
Decimal(str) ==
  IF str = <<>> THEN 0
  ELSE 10 * Decimal(SubSeq(str, 1, Len(str) - 1)) + (str[Len(str)] - 48)

\* the element that the redirection body b denotes for the descriptor fd
Body(b, fd) ==
  LET t == Types(b)
  IN  CASE t = <<"TOKEN_LT", "TOKEN_STRING">> ->
             [type |-> "ELEMENT_REDIR_FILE_IN", name |-> b[2].string, fd |-> fd, fd2 |-> 0]
        [] t = <<"TOKEN_GT", "TOKEN_STRING">> ->
             [type |-> "ELEMENT_REDIR_FILE_OUT", name |-> b[2].string, fd |-> fd, fd2 |-> 0]
        [] t = <<"TOKEN_GT", "TOKEN_GT", "TOKEN_STRING">> ->
             [type |-> "ELEMENT_REDIR_FILE_APPEND", name |-> b[3].string, fd |-> fd, fd2 |-> 0]
        [] t = <<"TOKEN_LT", "TOKEN_CB_OPEN", "TOKEN_STRING", "TOKEN_CB_CLOSE">> ->
             [type |-> "ELEMENT_REDIR_FD_IN", name |-> NULL, fd |-> fd,
              fd2 |-> Decimal(b[3].string)]
        [] t = <<"TOKEN_GT", "TOKEN_CB_OPEN", "TOKEN_STRING", "TOKEN_CB_CLOSE">> ->
             [type |-> "ELEMENT_REDIR_FD_OUT", name |-> NULL, fd |-> fd,
              fd2 |-> Decimal(b[3].string)]
        [] OTHER -> NoElt

HasFd(w) ==
  Len(w) > 3 /\ SubSeq(Types(w), 1, 3) = <<"TOKEN_CB_OPEN", "TOKEN_STRING", "TOKEN_CB_CLOSE">>

\* the element a window denotes, NoElt when the window is no production
Denotes(w) ==
  IF Types(w) = <<"TOKEN_STRING">>
  THEN [type |-> "ELEMENT_ARG", name |-> w[1].string, fd |-> 0, fd2 |-> 0]
  ELSE IF HasFd(w) THEN Body(SubSeq(w, 4, Len(w)), Decimal(w[2].string))
  ELSE IF w # <<>> /\ w[1].type = "TOKEN_LT" THEN Body(w, 0)
  ELSE IF w # <<>> /\ w[1].type = "TOKEN_GT" THEN Body(w, 1)
  ELSE NoElt

\* every descriptor named in '{...}' is a decimal number
DecimalFds(w) ==
  \A i \in 1 .. Len(w) :
    (i > 1 /\ w[i - 1].type = "TOKEN_CB_OPEN" /\ w[i].type = "TOKEN_STRING")
      => AllDigits(w[i].string)

\* C4: a window that is one production of the grammar is returned, on its
\* last token, as the element of the variant and name it denotes, and the
\* window is empty afterwards; the element carries the explicit descriptors
\* when they are decimal numbers and the default 0 or 1 otherwise; no
\* element other than Error is returned for a window that is no production
C4_Productions ==
  pstep.win # <<>> =>
    /\ Denotes(pstep.win) # NoElt =>
         /\ pc = "interp"
         /\ elt.type = Denotes(pstep.win).type
         /\ elt.name = Denotes(pstep.win).name
         /\ parser.tokens = <<>>
         /\ DecimalFds(pstep.win) => elt = Denotes(pstep.win)
    /\ pstep.ret \notin {"none", "ELEMENT_ERROR"} => Denotes(pstep.win) # NoElt

\* C4 witness: the longest production, '{' 2 '}' '>' '{' 2 '}', was returned
\* as a descriptor redirection of descriptor 2
C4_Witness ==
  /\ pc = "interp"
  /\ Len(pstep.win) = 7
  /\ elt.type = "ELEMENT_REDIR_FD_OUT"
  /\ elt.fd = 2 /\ elt.fd2 = 2

(* Quoting, written down on its own: an input of quoted pieces '...',    *)
(* "..." and escaped bytes \b, and the text it stands for                *)
IndexOf(str, c, from) ==
  LET S == {j \in from .. Len(str) : str[j] = c}
  IN  IF S = {} THEN 0 ELSE Min(S)

RECURSIVE Unquote(_)
Unquote(str) ==
  IF str = <<>> THEN [ok |-> TRUE, text |-> <<>>]
  ELSE IF Head(str) = CH_BSL
  THEN IF Len(str) < 2 THEN [ok |-> FALSE, text |-> <<>>]
       ELSE LET r == Unquote(SubSeq(str, 3, Len(str)))
            IN  [ok |-> r.ok, text |-> <<str[2]>> \o r.text]
  ELSE IF Head(str) \in {CH_SQ, CH_DQ}
  THEN LET j == IndexOf(str, Head(str), 2)
       IN  IF j = 0 THEN [ok |-> FALSE, text |-> <<>>]
           ELSE LET r == Unquote(SubSeq(str, j + 1, Len(str)))
                IN  [ok |-> r.ok, text |-> SubSeq(str, 2, j - 1) \o r.text]
  ELSE [ok |-> FALSE, text |-> <<>>]

Ascii(str) == \A i \in 1 .. Len(str) : str[i] < 128

\* the top-level interpret() has just been handed ELEMENT_EOF
AtEndOfInput == Recording /\ pc = "interp" /\ elt.type = "ELEMENT_EOF"

\* C5: an input made only of quoted text and escaped bytes, the empty
\* quoted strings included, yields exactly one Argument before EndOfInput,
\* whose payload is the input without its quotes and escaping backslashes
C5_RoundTrip ==
  (AtEndOfInput /\ rec.input # <<>> /\ Ascii(rec.input) /\ Unquote(rec.input).ok) =>
    rec.elts = <<[type |-> "ELEMENT_ARG", name |-> Unquote(rec.input).text,
                  fd |-> 0, fd2 |-> 0],
                 element_create("ELEMENT_EOF")>>

Last(str) == str[Len(str)]

\* the bytes a token stands for
TokenBytes(t) ==
  CASE t.type = "TOKEN_STRING" -> t.string
    [] t.type = "TOKEN_EOF" -> <<>>
    [] t.type = "TOKEN_LT" -> <<CH_LT>>
    [] t.type = "TOKEN_GT" -> <<CH_GT>>
    [] t.type = "TOKEN_AMPERSAND" -> <<CH_AMP>>
    [] t.type = "TOKEN_CB_OPEN" -> <<CH_CBO>>
    [] t.type = "TOKEN_CB_CLOSE" -> <<CH_CBC>>
    [] t.type = "TOKEN_SEMI" -> <<CH_SEMI>>
    [] t.type = "TOKEN_EOLN" -> <<CH_NL>>

RECURSIVE Flatten(_)
Flatten(ts) == IF ts = <<>> THEN <<>> ELSE TokenBytes(Head(ts)) \o Flatten(Tail(ts))

NotSeparator(c) == c \notin Separators
Plain(str) == \A i \in 1 .. Len(str) : str[i] \notin {CH_BSL, CH_SQ, CH_DQ, CH_FF}

\* the bytes of a plain input are, in order and once each, in the tokens
\* returned, in the text being accumulated or in the replay buffer
C6_Conservation ==
  (Recording /\ Plain(rec.input)) =>
    SelectSeq(rec.input, NotSeparator)
      = Flatten(rec.toks) \o tokenizer.string
          \o (IF tokenizer.state = "TOKENIZER_BUFFERED"
              THEN <<tokenizer.buffered>> ELSE <<>>)

\* this step reads a special byte in the neutral state with text accumulated
FlushStep ==
  /\ pc = "tok"
  /\ tokenizer.state = "TOKENIZER_NEUTRAL"
  /\ tokenizer.string # NULL
  /\ Len(rec.input') = Len(rec.input) + 1
  /\ Last(rec.input') \in Specials

\* this step is the call of tokenizer_next that follows: it returns the
\* token of the byte that was read last, and reads nothing
ReplayStep ==
  /\ rec.input' = rec.input
  /\ budget' = budget
  /\ ~didRead'
  /\ token' = Tok(SpecialType(Last(rec.input)))
  /\ rec.toks' = Append(rec.toks, token')
  /\ pc' = "parse"

C6_Replay ==
  Recording =>
    /\ FlushStep => /\ token' = TokString(tokenizer.string)
                    /\ pc' = "parse"
                    /\ tokenizer'.state = "TOKENIZER_BUFFERED"
    /\ tokenizer.state = "TOKENIZER_BUFFERED" =>
         \/ /\ UNCHANGED <<tokenizer, budget, reader>>
            /\ rec.input' = rec.input /\ rec.toks' = rec.toks
         \/ pc = "tok" /\ ReplayStep

\* C6: a special byte read while text is accumulated makes tokenizer_next
\* return the text on this call and the token of that byte on the next,
\* with no byte read in between, and no byte is lost, doubled or reordered
C6_OneByteReplay == [][C6_Replay]_vars /\ []C6_Conservation

\* C6 witness: a text token, then the token of the byte that ended it,
\* returned without a read
C6_Witness ==
  /\ Recording /\ pc = "parse" /\ ~didRead
  /\ Len(rec.toks) >= 2
  /\ rec.toks[Len(rec.toks) - 1].type = "TOKEN_STRING"
  /\ token.type = "TOKEN_SEMI"
  /\ Last(rec.input) = CH_SEMI

HasEOF(ts) == \E i \in 1 .. Len(ts) : ts[i].type = "TOKEN_EOF"

\* once TOKEN_EOF has been returned, tokenizer_next does not go round its
\* loop, and a call of it returns TOKEN_EOF and does not call reader_next
C7_NoLoop ==
  (Recording /\ HasEOF(rec.toks) /\ pc = "tok" /\ pc' = "tok") =>
    UNCHANGED <<tokenizer, budget, reader, didRead, rec>>

C7_AfterEOF ==
  (Recording /\ HasEOF(rec.toks) /\ pc = "tok" /\ pc' # "tok") =>
    /\ token'.type = "TOKEN_EOF"
    /\ pc' = "parse"
    /\ ~didRead'
    /\ UNCHANGED <<budget, reader>>

\* C7: tokenizer_next never fails (none of its assertions does), and once
\* it has returned EndOfInput every later call returns EndOfInput without
\* consulting the byte source
C7_NeverFails ==
  [](pc # "assert_tokenizer") /\ [][C7_AfterEOF /\ C7_NoLoop]_vars

\* C7 witness: EndOfInput was returned twice
C7_Witness ==
  /\ Recording /\ Len(rec.toks) >= 2
  /\ rec.toks[Len(rec.toks)].type = "TOKEN_EOF"
  /\ rec.toks[Len(rec.toks) - 1].type = "TOKEN_EOF"

\* spawn() has returned to perform() from its foreground branch
SpawnReturned ==
  /\ pc = "ret"
  /\ ~background
  /\ command.argv # <<>> /\ command.argv[1] \notin Builtins
  /\ pid > 0

Terminated(p) == procs[p].state \in {"zombie", "reaped"}

\* C8: spawn() returns from a foreground command only after the child it
\* forked for it has terminated, and it is that child whose status it
\* reports, whatever background children terminate meanwhile; so a
\* foreground child that has not terminated is the one the shell waits for
C8_WaitsForItsChild ==
  /\ SpawnReturned => (endpid = pid /\ Terminated(pid))
  /\ \A p \in 1 .. Len(procs) :
       (~procs[p].background /\ ~Terminated(p)) => (pc = "wait" /\ pid = p)

\* the shell is in wait() for the child it has just forked
C9_WaitsForForeground ==
  pc = "wait" =>
    /\ ~background
    /\ pid \in 1 .. Len(procs)
    /\ ~procs[pid].background

\* perform() of a command that ends in '&' returns at once
C9_Returns == (IsPerform /\ Bg /\ pc' # pc) => pc' = "ret"

\* C9: dispatching a command terminated by '&' never blocks the shell:
\* spawn() returns without a wait call, whatever the child does
C9_BackgroundNeverBlocks == []C9_WaitsForForeground /\ [][C9_Returns]_vars

\* C9 witness: interpret() has returned while a background child that it
\* forked is still running
C9_Witness ==
  /\ pc = "done"
  /\ \E p \in 1 .. Len(procs) : procs[p].background /\ procs[p].state = "running"

\* C10: the shell process terminates only through the 'exit' builtin (or
\* at the end of its input): after any other command it is still running
C10_OnlyExitTerminates ==
  pc = "exited" => (command.argv # <<>> /\ command.argv[1] = BUILTIN_EXIT)

\* perform() is called for a builtin in this step
PerformsBuiltin == IsPerform /\ command.argv[1] \in Builtins /\ pc' # pc

Restricted == Bg \/ Len(command.redirs) > 0

C11_Rejected ==
  (PerformsBuiltin /\ Restricted) =>
    /\ pc' = "ret"
    /\ UNCHANGED <<cwd, fds, files, status, procs>>

C11_Synchronous ==
  (PerformsBuiltin /\ ~Restricted) => (procs' = procs /\ pc' # "wait")

\* C11: a builtin (cd, source, exit, exec) that has a redirection or ends
\* in '&' is not run and leaves the working directory, the descriptors and
\* the process image of the shell as they are; without either it runs in
\* the shell process, no child being forked
C11_BuiltinRestrictions == [][C11_Rejected /\ C11_Synchronous]_vars

\* the flags a file redirection opens its path with
FileFlags(e) ==
  CASE e.type = "ELEMENT_REDIR_FILE_IN" -> O_RDONLY
    [] e.type = "ELEMENT_REDIR_FILE_OUT" -> O_OUT
    [] e.type = "ELEMENT_REDIR_FILE_APPEND" -> O_APP

FileRedirs ==
  {"ELEMENT_REDIR_FILE_IN", "ELEMENT_REDIR_FILE_OUT", "ELEMENT_REDIR_FILE_APPEND"}

\* the redirection e cannot be made in the process state st: its file
\* cannot be opened, or the descriptor to copy is not open, or the
\* descriptor to bind is no descriptor
Fails(e, st) ==
  IF e.type \in FileRedirs
  THEN (e.name \notin st.files /\ "O_CREAT" \notin FileFlags(e)) \/ e.fd < 0
  ELSE e.fd2 \notin DOMAIN st.fds \/ e.fd < 0

\* the first redirection of rs that fails when they are made in order
\* from st, 0 when none does
FirstFailure(rs, st) ==
  LET F == {i \in 1 .. Len(rs) : Fails(rs[i], redir(SubSeq(rs, 1, i - 1), st))}
  IN  IF F = {} THEN 0 ELSE Min(F)

\* the child p does its redirections in this step
ChildRedirects(p) ==
  /\ p \in 1 .. Len(procs)
  /\ procs[p].state = "forked"
  /\ procs'[p].state # "forked"

C12_Step ==
  \A p \in 1 .. Len(procs) :
    LET st0 == RState(TRUE, procs[p].fds, files)
        k == FirstFailure(procs[p].redirs, st0)
        upto == redir(SubSeq(procs[p].redirs, 1, k), st0)
    IN  (ChildRedirects(p) /\ k > 0) =>
          /\ procs'[p].state = "zombie"
          /\ procs'[p].status # 0
          /\ procs'[p].fds = upto.fds
          /\ files' = upto.files
          /\ UNCHANGED <<pc, status, fds>>

\* C12: when a redirection of a spawned child fails, the child exits at
\* once with a nonzero status: no later redirection is made, the program
\* is never started, and the shell itself goes on
C12_FailedRedirection == [][C12_Step]_vars

\* C12 witness: a child whose first redirection failed and whose second
\* would have created a file has exited with status 1, the file not made
C12_Witness ==
  \E p \in 1 .. Len(procs) :
    /\ procs[p].state = "zombie" /\ procs[p].status = 1
    /\ Len(procs[p].redirs) = 2
    /\ Fails(procs[p].redirs[1], RState(TRUE, procs[p].fds, files))
    /\ procs[p].redirs[2].type = "ELEMENT_REDIR_FILE_OUT"
    /\ procs[p].redirs[2].name \notin files
    /\ pc \notin {"exited", "replaced"}

\* the descriptors that several of the redirections rs bind
Conflicting(rs) ==
  {d \in {rs[i].fd : i \in 1 .. Len(rs)} :
     Cardinality({i \in 1 .. Len(rs) : rs[i].fd = d}) >= 2}

\* the last redirection of rs that binds the descriptor d
LastFor(rs, d) == CHOOSE i \in 1 .. Len(rs) :
  rs[i].fd = d /\ \A j \in (i + 1) .. Len(rs) : rs[j].fd # d

\* what the redirection rs[i] binds its descriptor to: its file, or what
\* the descriptor it copies is bound to when its turn comes
Destination(rs, i, st0) ==
  IF rs[i].type \in FileRedirs
  THEN Desc(rs[i].name, FileFlags(rs[i]))
  ELSE redir(SubSeq(rs, 1, i - 1), st0).fds[rs[i].fd2]

C13_Step ==
  \A p \in 1 .. Len(procs) :
    LET rs == procs[p].redirs
        st0 == RState(TRUE, procs[p].fds, files)
    IN  (ChildRedirects(p) /\ procs'[p].state = "running"
           /\ FirstFailure(rs, st0) = 0) =>
          \A d \in Conflicting(rs) :
            /\ d \in DOMAIN procs'[p].fds
            /\ procs'[p].fds[d] = Destination(rs, LastFor(rs, d), st0)

\* C13: the redirections are made in the order of the line, so when the
\* program of a child starts, each descriptor that its redirections bind
\* is bound to what the last redirection listed for it says
C13_LastRedirectionWins == [][C13_Step]_vars

\* the mode of each direction: read-only for '<', write + create +
\* truncate for '>', write + append + create for '>>'
DirectionMode(e) ==
  CASE e.type = "ELEMENT_REDIR_FILE_IN" -> {"O_RDONLY"}
    [] e.type = "ELEMENT_REDIR_FILE_OUT" -> {"O_WRONLY", "O_CREAT", "O_TRUNC"}
    [] e.type = "ELEMENT_REDIR_FILE_APPEND" -> {"O_WRONLY", "O_APPEND", "O_CREAT"}

C14_Step ==
  \A p \in 1 .. Len(procs) :
    LET rs == procs[p].redirs
        e == rs[1]
    IN  (ChildRedirects(p) /\ Len(rs) = 1 /\ e.type \in FileRedirs
           /\ (e.name \in files \/ "O_CREAT" \in DirectionMode(e))) =>
          /\ e.name \in files'
          /\ e.fd \in DOMAIN procs'[p].fds
          /\ procs'[p].fds[e.fd] = Desc(e.name, DirectionMode(e))

\* C14: a file redirection opens its path with the mode of its direction,
\* so '>> file' creates a file that does not exist, as '> file' does, and
\* the command has the descriptor bound to it
C14_OpenModes == [][C14_Step]_vars

\* the payloads of the Argument elements of es that follow its last
\* terminator element, in their order
RECURSIVE ArgsOfLine(_)
ArgsOfLine(es) ==
  IF es = <<>> \/ es[Len(es)].type \in Terminators THEN <<>>
  ELSE LET before == ArgsOfLine(SubSeq(es, 1, Len(es) - 1))
       IN  IF es[Len(es)].type = "ELEMENT_ARG"
           THEN Append(before, es[Len(es)].name) ELSE before

\* at a terminator the command holds the arguments of its line, in order
C15_Arguments ==
  (Recording /\ IsGotline) =>
    command.argv = ArgsOfLine(SubSeq(rec.elts, 1, Len(rec.elts) - 1))

\* while perform() runs, its flag says whether the terminator was '&'
C15_Flag == (pc \in {"ret", "wait"}) => (background = Bg)

\* gotline() for a terminator calls perform() with the command as it is,
\* or not at all when it has no arguments; when perform() has returned,
\* the command is not dispatched again
C15_Step ==
  /\ (IsGotline /\ pc' # pc) =>
        IF Len(command.argv) = 0
        THEN pc' \in {"tok", "done", "source"} /\ procs' = procs
        ELSE /\ background' = Bg
             /\ command' = command
             /\ pc' \in {"ret", "wait", "source", "exited", "replaced"}
  /\ (pc = "ret" /\ pc' # pc) => pc' \in {"tok", "done", "source"}

\* C15: each terminator element makes one call of gotline(), which
\* dispatches the accumulated command at most once, with the arguments in
\* their order of appearance and the background flag set exactly for '&'
C15_OneDispatch == []C15_Arguments /\ []C15_Flag /\ [][C15_Step]_vars

\* C15 witness: perform() has returned for the command 'c 2' of the input
C15_Witness ==
  /\ Recording /\ pc = "ret"
  /\ command.argv = <<BUILTIN_CD, <<CH_2>>>>
  /\ ~background

\* the redirection elements of es that follow its last terminator element
RECURSIVE RedirsOfLine(_)
RedirsOfLine(es) ==
  IF es = <<>> \/ es[Len(es)].type \in Terminators THEN <<>>
  ELSE LET before == RedirsOfLine(SubSeq(es, 1, Len(es) - 1))
       IN  IF es[Len(es)].type \in RedirTypes
           THEN Append(before, es[Len(es)]) ELSE before

\* gotline() returns to the loop of interpret() in this step
GotlineReturns ==
  /\ (IsGotline /\ Len(command.argv) = 0) \/ pc = "ret"
  /\ pc' \in {"tok", "done"}

C16_Step == GotlineReturns => (command'.argv = <<>> /\ command'.redirs = <<>>)

\* what a command holds at its terminator is of its own line only
C16_OwnLine ==
  (Recording /\ IsGotline) =>
    /\ command.argv = ArgsOfLine(SubSeq(rec.elts, 1, Len(rec.elts) - 1))
    /\ command.redirs = RedirsOfLine(SubSeq(rec.elts, 1, Len(rec.elts) - 1))

\* C16: after every return of gotline(), the command performed, rejected
\* or skipped, the accumulator has no arguments and no redirections, so
\* nothing of a dispatched line is part of a later command
C16_ResetAfterDispatch == [][C16_Step]_vars /\ []C16_OwnLine

\* C16 witness: gotline() has returned for a command with an argument and
\* a redirection, which was dispatched, and the accumulator is empty
C16_Witness ==
  /\ Recording /\ pc \in {"tok", "done"}
  /\ Len(procs) = 1 /\ Len(procs[1].redirs) = 1
  /\ rec.elts # <<>> /\ rec.elts[Len(rec.elts)].type \in Terminators
  /\ command = NoCommand

\* the elements recorded before the terminator that interpret() holds
LineElements == SubSeq(rec.elts, 1, Len(rec.elts) - 1)

\* perform() has been called only for a command with an argument, taken
\* from a line with an Argument element
C17_Dispatched ==
  (Recording /\ Performing) =>
    (Len(command.argv) > 0 /\ ArgsOfLine(LineElements) # <<>>)

\* every child was forked for a command with an argument
C17_Children == \A p \in 1 .. Len(procs) : Len(procs[p].argv) > 0

\* the terminator of a line without Argument elements dispatches nothing:
\* no process is made and none has its descriptors or files touched
C17_Step ==
  (Recording /\ IsGotline /\ ArgsOfLine(LineElements) = <<>> /\ pc' # pc) =>
    /\ pc' \in {"tok", "done"}
    /\ UNCHANGED <<procs, fds, files, cwd, status>>

\* C17: perform() is only called with a command of at least one argument;
\* a line of no elements or of redirections only is never dispatched, and
\* its redirections are applied to no process
C17_NeedsArgument == []C17_Dispatched /\ []C17_Children /\ [][C17_Step]_vars

\* C17 witness: the line '<2' has been read to its end and nothing was
\* dispatched
C17_Witness ==
  /\ Recording /\ pc \in {"tok", "done"}
  /\ Len(rec.elts) = 2
  /\ rec.elts[1].type = "ELEMENT_REDIR_FILE_IN"
  /\ rec.elts[2].type \in Terminators
  /\ procs = <<>> /\ command = NoCommand

\* parser_next has just taken the last token of a window '{' fd '}' '>'
\* '{' fd '}' that nothing precedes on its line
BareFdRedirection ==
  /\ Types(pstep.win) = <<"TOKEN_CB_OPEN", "TOKEN_STRING", "TOKEN_CB_CLOSE", "TOKEN_GT",
                          "TOKEN_CB_OPEN", "TOKEN_STRING", "TOKEN_CB_CLOSE">>
  /\ AllDigits(pstep.win[2].string) /\ AllDigits(pstep.win[6].string)
  /\ line.n = 0 /\ ~line.err

\* C18: for the line '{2}>{1}', with no argument before it, the grammar
\* matcher produces an Error element (a redirection with no preceding
\* argument is a grammar error)
C18_BareRedirectionIsError == BareFdRedirection => pstep.ret = "ELEMENT_ERROR"

\* parser_next has just taken the seventh token of a window
FullWindow == Len(pstep.win) = MAX_TOKENS

IsEOF(t) == t.type = "TOKEN_EOF"

\* the types of the last k elements recorded
LastTypes(k) ==
  [i \in 1 .. k |-> rec.elts[Len(rec.elts) - k + i].type]

\* parser_next takes an EndOfInput token in this step
C20_Step ==
  (pc = "parse" /\ token.type = "TOKEN_EOF" /\ pc' # pc) =>
    /\ pc' = "interp"
    /\ parser'.tokens = <<>>
    /\ elt'.type = IF parser.tokens = <<>> THEN "ELEMENT_EOF" ELSE "ELEMENT_ERROR"

\* the elements handed on for the EndOfInput tokens: EndOfInput, or Error
\* and then EndOfInput
C20_Elements ==
  LET k == Len(SelectSeq(rec.toks, IsEOF))
  IN  (Recording /\ pc # "parse" /\ k >= 1) =>
        /\ k <= Len(rec.elts)
        /\ LastTypes(k) \in {<<"ELEMENT_EOF">>, <<"ELEMENT_ERROR">>,
                              <<"ELEMENT_ERROR", "ELEMENT_EOF">>}

\* the last command holds the elements of its line that were complete
C20_LastCommand ==
  AtEndOfInput =>
    /\ command.argv = ArgsOfLine(LineElements)
    /\ Len(command.redirs) = Len(RedirsOfLine(LineElements))

\* C20: an EndOfInput token on an empty window is handed on as EndOfInput;
\* on a window that is not empty it yields Error, the window is discarded
\* and the next call yields EndOfInput, so a truncated last element is no
\* argument or redirection of the last command
C20_TruncatedAtEOF == [][C20_Step]_vars /\ []C20_Elements /\ []C20_LastCommand

\* C20 witness: the input '2<' has ended: Argument, Error, EndOfInput, and
\* the last command is '2' without a redirection
C20_Witness ==
  /\ AtEndOfInput
  /\ Types(rec.elts) = <<"ELEMENT_ARG", "ELEMENT_ERROR", "ELEMENT_EOF">>
  /\ rec.input = <<CH_2, CH_LT>>
  /\ command = [argv |-> <<<<CH_2>>>>, redirs |-> <<>>]

\* the byte source of the current reader has reported end-of-input and the
\* text that was accumulated then has been returned
Flushed == reader.eof /\ pc # "tok"

\* tokenizer_next is called in this step after the byte source has
\* reported end-of-input
C21_LaterCall ==
  (reader.eof /\ pc = "tok" /\ pc' # pc) =>
    /\ token'.type = "TOKEN_EOF"
    /\ ~didRead'

\* C21: when the byte source reports end-of-input while text is
\* accumulated, tokenizer_next returns the text as the last Text token and
\* the tokenizer is in TOKENIZER_EOF from then on: every later call returns
\* EndOfInput and asks the byte source for nothing
C21_FinalTextThenEnd ==
  [](Flushed => tokenizer.state = "TOKENIZER_EOF") /\ [][C21_LaterCall]_vars

\* the bytes that tokenizer_next does not take as text in the neutral state
NotText == Separators \cup Specials \cup {CH_BSL, CH_SQ, CH_DQ}

\* reader_next delivers a byte of text to the neutral state in this step
ReadsText ==
  /\ Recording
  /\ pc = "tok"
  /\ tokenizer.state = "TOKENIZER_NEUTRAL"
  /\ Len(rec.input') = Len(rec.input) + 1
  /\ Last(rec.input') \notin NotText

C22_Step ==
  ReadsText =>
    /\ Len(tokenizer'.string) = Len(tokenizer.string) + 1
    /\ SubSeq(tokenizer'.string, 1, Len(tokenizer.string)) = tokenizer.string
    /\ Last(tokenizer'.string) % 256 = Last(rec.input')
    /\ tokenizer'.state = "TOKENIZER_NEUTRAL"
    /\ pc' = "tok"

\* C22: every byte 0..255 that is no separator, special byte, backslash or
\* quote is appended to the text when it is read in the neutral state; the
\* byte 0xFF, delivered as data, is text and not end-of-input
C22_EveryByteIsText == [][C22_Step]_vars

\* a text token that follows '<' or '>' in the window w is its last token
TargetIsLast(w) ==
  \A i \in 1 .. Len(w) - 1 :
    (w[i].type \in {"TOKEN_LT", "TOKEN_GT"} /\ w[i + 1].type = "TOKEN_STRING")
      => i + 1 = Len(w)

\* what the assertions of parser_match and parser_next require of the
\* window that parser_next has just appended a token to
C23_Window ==
  pstep.win # <<>> =>
    /\ pstep.n < MAX_TOKENS
    /\ pstep.win[1].type = "TOKEN_STRING" => Len(pstep.win) = 1
    /\ TargetIsLast(pstep.win)

\* C23: no assertion of the tokenizer or the parser fails on any byte
\* stream: a window that starts with a text token has one token, a text
\* token after '<' or '>' is the last of its window, a token is appended
\* only to a window of fewer than 7 tokens, and tokenizer_eof is not
\* entered in TOKENIZER_EOF
C23_NoAssertionFails ==
  /\ pc \notin {"assert_tokenizer", "assert_parser"}
  /\ C23_Window
  /\ Len(parser.tokens) < MAX_TOKENS

\* C23 witness: the window '{' 2 '}' '>' '>' 2 of six tokens was matched on
\* its last token, a text token after '>', right after the end of the
\* input had been met
C23_Witness ==
  /\ pc = "interp"
  /\ Types(pstep.win) = <<"TOKEN_CB_OPEN", "TOKEN_STRING", "TOKEN_CB_CLOSE",
                          "TOKEN_GT", "TOKEN_GT", "TOKEN_STRING">>
  /\ elt.type = "ELEMENT_REDIR_FILE_APPEND"
  /\ reader.eof

\* the parsers of this interpret() and of the suspended ones
Parsers == {parser} \cup {stack[i].parser : i \in 1 .. Len(stack)}

\* parser_next has just taken the seventh token of a window that is no
\* production of the grammar
TooLong == FullWindow /\ Denotes(pstep.win) = NoElt

\* C24: the parser is in PARSER_NEUTRAL in every reachable state:
\* parser_match returns an element or an Error for every window of 7
\* tokens, so the 'pattern too long' branch is not taken and neither
\* PARSER_ERROR nor PARSER_EOF is entered
C24_AlwaysNeutral ==
  /\ \A p \in Parsers : p.state = "PARSER_NEUTRAL"
  /\ FullWindow => (pstep.ret # "none" /\ pc = "interp")

\* C24 witness: a window of 7 tokens that is no production has been taken;
\* it was answered by parser_match with Error
C24_Witness ==
  /\ TooLong
  /\ pstep.ret = "ELEMENT_ERROR"
  /\ parser = parser_create

\* the elements handed to interpret() since the byte source reported its end
AfterEOS ==
  IF rec.eos < 0 THEN <<>> ELSE SubSeq(rec.elts, rec.eos + 1, Len(rec.elts))

\* the number of elements of es whose type is in T
Count(es, T) == Cardinality({i \in 1 .. Len(es) : es[i].type \in T})

\* EndOfInput is handed on once, as the last element
EndsOnce(es) ==
  \A i \in 1 .. Len(es) : es[i].type = "ELEMENT_EOF" => (i = Len(es) /\ pc # "tok")

\* the statement as it stands: after the end of the stream nothing but at
\* most one Argument, at most one Error and the EndOfInput is handed on
C25_AfterEOS_Original ==
  /\ \A i \in 1 .. Len(AfterEOS) :
       AfterEOS[i].type \in {"ELEMENT_ARG", "ELEMENT_ERROR", "ELEMENT_EOF"}
  /\ Count(AfterEOS, {"ELEMENT_ARG"}) <= 1
  /\ Count(AfterEOS, {"ELEMENT_ERROR"}) <= 1
  /\ EndsOnce(AfterEOS)

C25_AfterEOS ==
  /\ \A i \in 1 .. Len(AfterEOS) :
       AfterEOS[i].type \in {"ELEMENT_ARG", "ELEMENT_ERROR", "ELEMENT_EOF"} \cup RedirTypes
  /\ Count(AfterEOS, {"ELEMENT_ARG", "ELEMENT_ERROR"} \cup RedirTypes) <= 1
  /\ EndsOnce(AfterEOS)

\* interpret() has returned only after the EndOfInput, with no command left
C25_Done ==
  pc = "done" =>
    /\ rec.eos >= 0
    /\ AfterEOS # <<>> /\ Last(AfterEOS).type = "ELEMENT_EOF"
    /\ command = NoCommand

====
